---------------------------- MODULE Spec2Model ----------------------------
(***************************************************************************)
(* Zonal landscape metrics of src/src/course/pdanded.py (PD, ED) and      *)
(* src/src/course/shdiandlpi.py (SHDI, LPI, CONTAG).                      *)
(*                                                                         *)
(* One run of LandscapeMetricsCalculator.calculate(): the outer loop over *)
(* raster_paths, the zone loop of _calculate_metrics and _save_results.   *)
(* The variable script says which of the two programs is running.         *)
(*                                                                         *)
(* Numbers.  Python floats are modelled as exact rationals [n, d] (d > 0, *)
(* not reduced; compared by cross-multiplication).  A Shannon index and a  *)
(* contagion index are kept exactly, as the integers their logarithms are *)
(* taken of, see calculate_shdi and calculate_contag.                     *)
(***************************************************************************)
EXTENDS Integers, Sequences, FiniteSets, TLC

VARIABLES
    script,     \* "pdanded" or "shdiandlpi": the program that runs
    rasters,    \* self.raster_paths with what each path loads to
    fishnet,    \* fishnet_gdf: one row per zone, [bounds, cols]
    pc,         \* position in calculate(): "load", "zones", "done", "raised"
    r,          \* index of the raster of the outer loop (1-based)
    idx,        \* index of the zone of the inner loop (1-based)
    win,        \* locals of the latest zone iteration
    sink,       \* files written by to_file: set of [path, table]
    err         \* the exception that ended the run, or "none"

vars == <<script, rasters, fishnet, pc, r, idx, win, sink, err>>

---------------------------------------------------------------------------
(* Bounds of the model *)

\* windows of the metric inputs have at most MaxCells pixels
MaxCells == 4
\* number of distinct pixel codes drawn for the metric inputs
NumCodes == 4
\* how far (world units) a zone edge may lie outside the raster extent
Margin == 2

(* Program constants *)

\* the nodata sentinel tested by the zone loop
Nodata == 255
\* range(1, 7): the classes 1..LastClass of the PD/ED columns
LastClass == 6
\* round(x, 4)
RoundDigits == 4

ClassDomain == 1..LastClass

---------------------------------------------------------------------------
(* Exact rationals for Python floats *)

Rat(n, d) == IF d > 0 THEN [n |-> n, d |-> d] ELSE [n |-> -n, d |-> -d]
RatOfInt(k) == [n |-> k, d |-> 1]
RatLt(x, y) == x.n * y.d < y.n * x.d
RatEq(x, y) == x.n * y.d = y.n * x.d

Min(a, b) == IF a < b THEN a ELSE b
Max(a, b) == IF a > b THEN a ELSE b

RECURSIVE Pow(_, _)
Pow(b, k) == IF k = 0 THEN 1 ELSE b * Pow(b, k - 1)

\* int(x) of a float: truncation toward zero
PyInt(x) == IF x.n >= 0 THEN x.n \div x.d ELSE -((-x.n) \div x.d)

\* round(x, 4) of a float: to the nearest multiple of 10^-4, a tie to the
\* even one
RoundRat(x) ==
    LET scale == Pow(10, RoundDigits)
        q == (x.n * scale) \div x.d
        rem == (x.n * scale) % x.d
        up == \/ 2 * rem > x.d
              \/ (2 * rem = x.d /\ q % 2 = 1)
    IN  Rat(IF up THEN q + 1 ELSE q, scale)

(* Cell values of the results table *)
None == [k |-> "None"]
NaN == [k |-> "NaN"]

\* mutant of Num: a value is rounded when it is written to the table
Num_Rounded(x) == [k |-> "num", n |-> RoundRat(x).n, d |-> RoundRat(x).d]

Num(x) == [k |-> "num", n |-> x.n, d |-> x.d]


---------------------------------------------------------------------------
(* Grids: a numpy 2-D array is a sequence of rows, each a sequence of codes *)

Shape0(g) == Len(g)
Shape1(g) == IF Len(g) = 0 THEN 0 ELSE Len(g[1])
Size(g) == Shape0(g) * Shape1(g)
Cells(g) == {<<i, j>> : i \in 1..Shape0(g), j \in 1..Shape1(g)}
At(g, p) == g[p[1]][p[2]]

\* (raster_data == v).sum() and (raster_data != v).sum()
CountEq(g, v) == Cardinality({p \in Cells(g) : At(g, p) = v})
CountNe(g, v) == Cardinality({p \in Cells(g) : At(g, p) # v})

\* a slice bound of a[lo:hi] on an axis of length n: a negative bound counts
\* from the end, and every bound is clamped to 0..n
SliceBound(i, n) == IF i < 0 THEN Max(i + n, 0) ELSE Min(i, n)

\* data[row_start:row_end, col_start:col_end]
ClipSlice(data, row_start, row_end, col_start, col_end) ==
    LET r0 == SliceBound(row_start, Shape0(data))
        r1 == SliceBound(row_end, Shape0(data))
        c0 == SliceBound(col_start, Shape1(data))
        c1 == SliceBound(col_end, Shape1(data))
        nr == Max(r1 - r0, 0)
        nc == Max(c1 - c0, 0)
    IN  [i \in 1..nr |-> [j \in 1..nc |-> data[r0 + i][c0 + j]]]

---------------------------------------------------------------------------
(* The affine transform of a raster: [a, e, c, f], rotation terms zero.   *)
(* ~transform * (x, y) = ((x - c) / a, (y - f) / e)                        *)

InvCol(t, x) == Rat(x - t.c, t.a)
InvRow(t, y) == Rat(y - t.f, t.e)

\* abs(meta["transform"].a), abs(meta["transform"].e)
Abs(x) == IF x < 0 THEN -x ELSE x
ResX(t) == Abs(t.a)
ResY(t) == Abs(t.e)

\* mutant of OutOfExtent: the test of row_end against the height is missing
OutOfExtent_NoRowEnd(col_start, row_start, col_end, row_end, data) ==
    \/ RatLt(col_start, RatOfInt(0))
    \/ RatLt(row_start, RatOfInt(0))
    \/ RatLt(RatOfInt(Shape1(data)), col_end)

\* the extent test of the zone loop, on the float window bounds
OutOfExtent(col_start, row_start, col_end, row_end, data) ==
    \/ RatLt(col_start, RatOfInt(0))
    \/ RatLt(row_start, RatOfInt(0))
    \/ RatLt(RatOfInt(Shape1(data)), col_end)
    \/ RatLt(RatOfInt(Shape0(data)), row_end)

\* mutant of EmptyOrNodata: only the empty array is rejected
EmptyOrNodata_SizeOnly(clipped_data) == Size(clipped_data) = 0

\* the emptiness test of the zone loop, on the clipped array
EmptyOrNodata(clipped_data) ==
    Size(clipped_data) = 0 \/ CountNe(clipped_data, Nodata) = 0

NoWin == [outcome |-> "none", f |-> <<>>, i |-> <<>>, clipped |-> <<>>]

\* the locals of a zone iteration that raised before the window bounds
\* were assigned
ZoneRaised == [outcome |-> "raised", f |-> <<>>, i |-> <<>>, clipped |-> <<>>]

\* The window part of one zone iteration: the float bounds f, the integer
\* bounds i (assigned only when the extent test passes), the clipped array,
\* and which branch the iteration took.
\* f and i are <<col_start, row_start, col_end, row_end>>.
ZoneWindow(data, t, bounds) ==
    LET minx == bounds[1]
        miny == bounds[2]
        maxx == bounds[3]
        maxy == bounds[4]
        col_start == InvCol(t, minx)
        row_start == InvRow(t, maxy)
        col_end == InvCol(t, maxx)
        row_end == InvRow(t, miny)
        f == <<col_start, row_start, col_end, row_end>>
    IN  IF OutOfExtent(col_start, row_start, col_end, row_end, data)
        THEN [outcome |-> "extent", f |-> f, i |-> <<>>, clipped |-> <<>>]
        ELSE LET ics == PyInt(col_start)
                 ice == PyInt(col_end)
                 irs == PyInt(row_start)
                 ire == PyInt(row_end)
                 clipped_data == ClipSlice(data, irs, ire, ics, ice)
             IN  [outcome |-> IF EmptyOrNodata(clipped_data)
                              THEN "empty" ELSE "computed",
                  f |-> f,
                  i |-> <<ics, irs, ice, ire>>,
                  clipped |-> clipped_data]

---------------------------------------------------------------------------
(* Helpers of the metric functions *)

RECURSIVE SumSeq(_)
SumSeq(q) == IF q = <<>> THEN 0 ELSE q[1] + SumSeq(Tail(q))

SetMin(S) == CHOOSE x \in S : \A y \in S : x <= y
SetMax(S) == CHOOSE x \in S : \A y \in S : x >= y

RECURSIVE SortedSeq(_)
SortedSeq(S) ==
    IF S = {} THEN <<>> ELSE <<SetMin(S)>> \o SortedSeq(S \ {SetMin(S)})

\* np.unique(raster_data, return_counts=True): the distinct values in
\* ascending order, and the number of pixels of each
Unique(g) == SortedSeq({At(g, p) : p \in Cells(g)})
Counts(g) ==
    LET unique == Unique(g)
    IN  [u \in DOMAIN unique |-> CountEq(g, unique[u])]

\* the scan order of "for i in range(shape[0]): for j in range(shape[1])":
\* the n-th pixel visited, n = 1..size
ScanCell(g, n) == <<((n - 1) \div Shape1(g)) + 1, ((n - 1) % Shape1(g)) + 1>>

\* mutant of Neighbors: the pixel above is replaced by the pixel itself
Neighbors_NoUp(p) ==
    << <<p[1], p[2]>>, <<p[1] + 1, p[2]>>,
       <<p[1], p[2] - 1>>, <<p[1], p[2] + 1>> >>

\* neighbors = [(i - 1, j), (i + 1, j), (i, j - 1), (i, j + 1)]
Neighbors(p) ==
    << <<p[1] - 1, p[2]>>, <<p[1] + 1, p[2]>>,
       <<p[1], p[2] - 1>>, <<p[1], p[2] + 1>> >>

\* 0 <= ni < shape[0] and 0 <= nj < shape[1]
InBounds(g, q) ==
    /\ 1 <= q[1] /\ q[1] <= Shape0(g)
    /\ 1 <= q[2] /\ q[2] <= Shape1(g)

---------------------------------------------------------------------------
(* pdanded.py: patch density and edge length *)

\* mutant of patch_density: the class area is the pixel count, not an area
patch_density_NoCellArea(raster_data, class_val, cell_area, total_area) ==
    Rat(CountEq(raster_data, class_val), total_area)

patch_density(raster_data, class_val, cell_area, total_area) ==
    LET class_area == CountEq(raster_data, class_val) * cell_area
    IN  Rat(class_area, total_area)

\* mutant of EdgeUnit: width and height are exchanged
EdgeUnit_Swapped(p, q, res_x, res_y) == IF q[1] = p[1] THEN res_y ELSE res_x

\* edge_length += res_x if ni == i else res_y
EdgeUnit(p, q, res_x, res_y) == IF q[1] = p[1] THEN res_x ELSE res_y

\* mutant of EdgeStep: a neighbour outside the array counts as a differing
\* neighbour
EdgeStep_OutsideDiffers(raster_data, class_val, res_x, res_y, p, d) ==
    LET q == Neighbors(p)[d]
    IN  IF At(raster_data, p) # class_val THEN 0
        ELSE IF ~InBounds(raster_data, q) THEN EdgeUnit(p, q, res_x, res_y)
        ELSE IF At(raster_data, q) # class_val
             THEN EdgeUnit(p, q, res_x, res_y)
             ELSE 0

\* what the pixel p adds to the edge length of class_val through its
\* neighbour number d
EdgeStep(raster_data, class_val, res_x, res_y, p, d) ==
    LET q == Neighbors(p)[d]
    IN  IF At(raster_data, p) # class_val THEN 0
        ELSE IF ~InBounds(raster_data, q) THEN 0
        ELSE IF At(raster_data, q) # class_val
             THEN EdgeUnit(p, q, res_x, res_y)
             ELSE 0

\* mutant of calculate_edge_length: only the neighbours below and to the
\* right are looked at
calculate_edge_length_HalfScan(raster_data, class_val, res_x, res_y) ==
    SumSeq([n \in 1..(2 * Size(raster_data)) |->
              EdgeStep(raster_data, class_val, res_x, res_y,
                       ScanCell(raster_data, ((n - 1) \div 2) + 1),
                       2 * (((n - 1) % 2) + 1))])

calculate_edge_length(raster_data, class_val, res_x, res_y) ==
    SumSeq([n \in 1..(4 * Size(raster_data)) |->
              EdgeStep(raster_data, class_val, res_x, res_y,
                       ScanCell(raster_data, ((n - 1) \div 4) + 1),
                       ((n - 1) % 4) + 1)])

---------------------------------------------------------------------------
(* shdiandlpi.py: SHDI, LPI, CONTAG *)

\* mutant of calculate_shdi: total_pixels is the number of pixels other
\* than nodata
calculate_shdi_ValidPixels(raster_data) ==
    LET counts == Counts(raster_data)
        total_pixels == CountNe(raster_data, Nodata)
    IN  [k |-> "ln", counts |-> counts, s |-> total_pixels]

\* SHDI = -sum(p * ln p), p = counts / total_pixels, kept as its parts: the
\* counts c and s = total_pixels.  Its value is
\*     -sum (c/s) ln(c/s) = (1/s) * ln( prod (s/c)^c )
calculate_shdi(raster_data) ==
    LET counts == Counts(raster_data)
        total_pixels == Size(raster_data)
    IN  [k |-> "ln", counts |-> counts, s |-> total_pixels]

\* mutant of calculate_lpi: the divisor is the number of pixels other
\* than nodata
calculate_lpi_ValidPixels(raster_data, total_area) ==
    LET counts == Counts(raster_data)
    IN  Rat(SetMax({counts[u] : u \in DOMAIN counts}),
            CountNe(raster_data, Nodata))

calculate_lpi(raster_data, total_area) ==
    LET counts == Counts(raster_data)
        max_patch_area == SetMax({counts[u] : u \in DOMAIN counts})
    IN  Rat(max_patch_area, total_area)

\* class_to_index (1-based here): the position of a code in unique
ClassToIndex(unique, code) == CHOOSE u \in DOMAIN unique : unique[u] = code

\* mutant of AdjIncrements: a neighbour of the pixel's own class is skipped,
\* as in the edge scan
AdjIncrements_SkipSame(raster_data, unique, a, b) ==
    {<<p, d>> \in Cells(raster_data) \X (1..4) :
        /\ ClassToIndex(unique, At(raster_data, p)) = a
        /\ InBounds(raster_data, Neighbors(p)[d])
        /\ At(raster_data, Neighbors(p)[d]) # At(raster_data, p)
        /\ ClassToIndex(unique, At(raster_data, Neighbors(p)[d])) = b}

\* mutant of AdjIncrements: a nodata neighbour is not in class_to_index
AdjIncrements_ValidOnly(raster_data, unique, a, b) ==
    {<<p, d>> \in Cells(raster_data) \X (1..4) :
        /\ ClassToIndex(unique, At(raster_data, p)) = a
        /\ InBounds(raster_data, Neighbors(p)[d])
        /\ At(raster_data, Neighbors(p)[d]) # Nodata
        /\ ClassToIndex(unique, At(raster_data, Neighbors(p)[d])) = b}

\* mutant of AdjIncrements: only the neighbours below and to the right are
\* looked at
AdjIncrements_RightDownOnly(raster_data, unique, a, b) ==
    {<<p, d>> \in Cells(raster_data) \X {2, 4} :
        /\ ClassToIndex(unique, At(raster_data, p)) = a
        /\ InBounds(raster_data, Neighbors(p)[d])
        /\ ClassToIndex(unique, At(raster_data, Neighbors(p)[d])) = b}

\* the pairs (pixel, neighbour number) of the adjacency scan that
\* increment adjacency_matrix[a, b]
AdjIncrements(raster_data, unique, a, b) ==
    {<<p, d>> \in Cells(raster_data) \X (1..4) :
        /\ ClassToIndex(unique, At(raster_data, p)) = a
        /\ InBounds(raster_data, Neighbors(p)[d])
        /\ ClassToIndex(unique, At(raster_data, Neighbors(p)[d])) = b}

\* mutant of AdjacencyMatrix: a neighbour outside the array is taken to be
\* of the pixel's own class
AdjacencyMatrix_Clamped(raster_data) ==
    LET unique == Unique(raster_data)
        m == Len(unique)
        outside(a) == {<<p, d>> \in Cells(raster_data) \X (1..4) :
                          /\ ClassToIndex(unique, At(raster_data, p)) = a
                          /\ ~InBounds(raster_data, Neighbors(p)[d])}
    IN  [a \in 1..m |-> [b \in 1..m |->
            Cardinality(AdjIncrements(raster_data, unique, a, b))
                + (IF a = b THEN Cardinality(outside(a)) ELSE 0)]]

\* adjacency_matrix after the scan
AdjacencyMatrix(raster_data) ==
    LET unique == Unique(raster_data)
        m == Len(unique)
    IN  [a \in 1..m |-> [b \in 1..m |->
            Cardinality(AdjIncrements(raster_data, unique, a, b))]]

\* np.sum(adjacency_matrix)
MatrixSum(mat) ==
    SumSeq([a \in DOMAIN mat |-> SumSeq(mat[a])])

\* mutant of calculate_contag: proportions holds the counts, not the counts
\* over total_area
calculate_contag_CountProportions(raster_data, total_area) ==
    LET counts == Counts(raster_data)
        m == Len(counts)
        adjacency_matrix == AdjacencyMatrix(raster_data)
        total_adjacency == MatrixSum(adjacency_matrix)
        p_ik(n) == LET i == ((n - 1) \div m) + 1
                       k == ((n - 1) % m) + 1
                   IN  Rat(counts[i] * adjacency_matrix[i][k], total_adjacency)
        terms == IF total_adjacency > 0
                 THEN SelectSeq([n \in 1..(m * m) |-> p_ik(n)],
                                LAMBDA x : x.n > 0)
                 ELSE <<>>
    IN  IF m = 1 THEN NaN
        ELSE [k |-> "contag", m |-> m, terms |-> terms]

\* the p_ik of the double loop over range(m) that add p_ik ln p_ik to
\* contag, in the order of the loop
ContagTerms(raster_data, total_area) ==
    LET counts == Counts(raster_data)
        m == Len(counts)
        adjacency_matrix == AdjacencyMatrix(raster_data)
        total_adjacency == MatrixSum(adjacency_matrix)
        p_ik(n) == LET i == ((n - 1) \div m) + 1
                       k == ((n - 1) % m) + 1
                   IN  Rat(counts[i] * adjacency_matrix[i][k],
                           total_area * total_adjacency)
    IN  IF total_adjacency > 0
        THEN SelectSeq([n \in 1..(m * m) |-> p_ik(n)], LAMBDA x : x.n > 0)
        ELSE <<>>

\* CONTAG = (1 + sum(p_ik ln p_ik) / (2 ln m)) * 100, kept as its parts:
\* m and the terms p_ik > 0 (row-major), p_ik = proportions[i] *
\* adjacency_matrix[i, k] / total_adjacency.  No term is added when
\* total_adjacency is 0.  With m = 1 every term is 1 * ln 1 = 0 and the
\* divisor 2 * np.log(1) is the float 0.0: numpy's 0 / 0.0 is nan.
calculate_contag(raster_data, total_area) ==
    LET m == Len(Unique(raster_data))
    IN  IF m = 1 THEN NaN
        ELSE [k |-> "contag", m |-> m,
              terms |-> ContagTerms(raster_data, total_area)]

---------------------------------------------------------------------------
(* The results table *)

\* the metric columns each program creates, as <<name, class>>
PdEdCols == {<<"PD", c>> : c \in ClassDomain} \cup {<<"ED", c>> : c \in ClassDomain}
ShdiCols == {<<"SHDI", 0>>, <<"LPI", 0>>, <<"CONTAG", 0>>}
MetricCols(s) == IF s = "pdanded" THEN PdEdCols ELSE ShdiCols

\* fishnet_gdf[col] = None, for every metric column
CreateColumns(gdf, s) ==
    [z \in DOMAIN gdf |->
        [gdf[z] EXCEPT !.cols = [col \in MetricCols(s) |-> None]]]

\* mutant of NanRow: a rejected zone is skipped without writing its cells
NanRow_Skipped(s) == [col \in MetricCols(s) |-> None]

\* mutant of NanRow: a rejected zone keeps the cells that the table written
\* for an earlier raster has for it
NanRow_FromEarlierTable(s) ==
    IF sink = {} THEN [col \in MetricCols(s) |-> NaN]
    ELSE (CHOOSE file \in sink : TRUE).table[idx].cols

\* the row of a zone rejected by the extent test or the emptiness test
NanRow(s) == [col \in MetricCols(s) |-> NaN]

\* mutant of PdEdRow: total_area is the pixel count, as in shdiandlpi.py
PdEdRow_PixelTotal(clipped_data, res_x, res_y) ==
    LET cell_area == res_x * res_y
        total_area == Size(clipped_data)
    IN  [col \in PdEdCols |->
            IF col[1] = "PD"
            THEN Num(patch_density(clipped_data, col[2], cell_area, total_area))
            ELSE Num(Rat(calculate_edge_length(clipped_data, col[2], res_x, res_y),
                         total_area))]

\* the row of a computed window in pdanded.py
PdEdRow(clipped_data, res_x, res_y) ==
    LET cell_area == res_x * res_y
        total_area == Size(clipped_data) * cell_area
    IN  [col \in PdEdCols |->
            IF col[1] = "PD"
            THEN Num(patch_density(clipped_data, col[2], cell_area, total_area))
            ELSE Num(Rat(calculate_edge_length(clipped_data, col[2], res_x, res_y),
                         total_area))]

\* mutant of ShdiRow: total_area is kept between the calls and grows with
\* every raster processed
ShdiRow_GrowingTotal(clipped_data) ==
    LET total_area == Size(clipped_data) * r
    IN  [col \in ShdiCols |->
            IF col[1] = "SHDI" THEN calculate_shdi(clipped_data)
            ELSE IF col[1] = "LPI"
                 THEN Num(calculate_lpi(clipped_data, total_area))
                 ELSE calculate_contag(clipped_data, total_area)]

\* the row of a computed window in shdiandlpi.py
ShdiRow(clipped_data) ==
    LET total_area == Size(clipped_data)
    IN  [col \in ShdiCols |->
            IF col[1] = "SHDI" THEN calculate_shdi(clipped_data)
            ELSE IF col[1] = "LPI"
                 THEN Num(calculate_lpi(clipped_data, total_area))
                 ELSE calculate_contag(clipped_data, total_area)]

\* round(x, 4) of a table cell.  round(nan, 4) is nan; a logarithmic value
\* is kept as "rounded of v".
RoundCell(v) ==
    IF v.k = "num" THEN Num(RoundRat(v))
    ELSE IF v.k = "NaN" THEN NaN
    ELSE [k |-> "round", of |-> v]

\* "tok" in raster_name, a name being a sequence of tokens
Contains(name, tok) == \E n \in DOMAIN name : name[n] = tok

Suffix(raster_name) ==
    IF Contains(raster_name, "2020") THEN "2020_landcover"
    ELSE IF Contains(raster_name, "2015") THEN "2015_landcover"
    ELSE IF Contains(raster_name, "2030") \/ Contains(raster_name, "Simulation")
         THEN "2030_prediction"
    ELSE "unknown"

OutputPath(raster_name) == <<"fishnet_metrics_", Suffix(raster_name), ".shp">>

\* fishnet_gdf.to_file(output_path): the file at that path is replaced
ToFile(files, path, gdf) ==
    {file \in files : file.path # path} \cup {[path |-> path, table |-> gdf]}

---------------------------------------------------------------------------
(* Inputs *)

Scripts == {"pdanded", "shdiandlpi"}
WorkingCrs == "EPSG:32649"

\* pixel codes of the input rasters: classes of the domain, the nodata
\* sentinel and a code outside the class domain
CodeList == <<1, Nodata, 2, LastClass + 1, LastClass, 3, 4, 5>>
Codes == {CodeList[n] : n \in 1..Min(NumCodes, Len(CodeList))}

\* pixel width and pixel height (world units) of the input rasters: oblong
\* pixels for the metric inputs, square ones for the window inputs
OblongPixel == [w |-> 2, h |-> 3]
SquarePixel == [w |-> 2, h |-> 2]

\* A raster of h rows and w columns with pixels px always covers the world
\* rectangle [0, w * px.w] x [0, h * px.h]; sx, sy are the signs of the
\* transform's a and e (north-up: sx = 1, sy = -1).
Transform(h, w, px, sx, sy) ==
    [a |-> sx * px.w,
     e |-> sy * px.h,
     c |-> IF sx > 0 THEN 0 ELSE w * px.w,
     f |-> IF sy > 0 THEN 0 ELSE h * px.h]

NorthUp(h, w, px) == Transform(h, w, px, 1, -1)

Raster(name, crs, t, data) == [name |-> name, crs |-> crs, t |-> t, data |-> data]

\* zone bounding boxes <<minx, miny, maxx, maxy>> around a raster of h rows
\* and w columns, with edges up to Margin outside its extent
Boxes(h, w, px) ==
    LET xs == (0 - Margin)..(w * px.w + Margin)
        ys == (0 - Margin)..(h * px.h + Margin)
    IN  {<<x0, y0, x1, y1>> : x0 \in xs, y0 \in ys, x1 \in xs, y1 \in ys}

ValidBox(b) == b[1] <= b[3] /\ b[2] <= b[4]

\* the box of the whole extent of a raster
FullBox(h, w, px) == <<0, 0, w * px.w, h * px.h>>

Zone(b) == [bounds |-> b, cols |-> <<>>]

\* a row of the fishnet whose geometry is None (a null shape of the
\* shapefile): it has no bounds
NullGeometry == <<>>

\* (1) the metric inputs: every grid of at most MaxCells pixels over Codes,
\*     north-up, one zone covering it
Shapes == {s \in (1..MaxCells) \X (1..MaxCells) : s[1] * s[2] <= MaxCells}
GridsOf(s) == [1..s[1] -> [1..s[2] -> Codes]]

\* (2) the window inputs: one raster, any orientation of the transform, two
\*     zones: any box, then the whole extent
GeoData == << <<Nodata, Nodata>>, <<1, 2>> >>
Signs == {1, -1}

\* (3) the scenario input: a 4 x 4 raster of four 2 x 2 blocks with pixels
\*     of 30 x 30, one zone covering it
ScenarioData ==
    << <<1, 1, 2, 2>>, <<1, 1, 2, 2>>, <<3, 3, 4, 4>>, <<3, 3, 4, 4>> >>
ScenarioPixel == [w |-> 30, h |-> 30]

\* (4) the driver inputs: lists of one or two rasters, two zones
NamePool ==
    { <<"CLCD_", "2020">>, <<"CLCD_", "2015">>,
      <<"result1530first", "Simulation", "_1">>, <<"dem">>, <<"slope">> }
\* two of the rasters have nodata where the others have classes
OtherData == << <<1, 2>>, <<Nodata, Nodata>> >>
DataOf(nm) ==
    IF nm \in {<<"CLCD_", "2015">>, <<"slope">>} THEN OtherData ELSE GeoData
RasterPool ==
    {Raster(nm, WorkingCrs, NorthUp(2, 2, SquarePixel), DataOf(nm)) : nm \in NamePool}
      \cup {Raster(<<"CLCD_", "2020">>, "EPSG:4326", NorthUp(2, 2, SquarePixel), GeoData)}
DriverFishnet == <<Zone(FullBox(2, 2, SquarePixel)), Zone(<<0, 0, 2, 2>>)>>
DriverFishnets ==
    { DriverFishnet,
      <<Zone(NullGeometry), Zone(FullBox(2, 2, SquarePixel))>>,
      <<Zone(FullBox(2, 2, SquarePixel)), Zone(NullGeometry)>> }

\* what _load_raster raises for a raster that is not in EPSG:32649: the
\* branch uses rasterio.warp without importing it, writes to a dataset
\* opened for reading and returns the unassigned local meta
LoadErrors == {"AttributeError", "RasterioError", "UnboundLocalError"}

InitMetrics ==
    \E s \in Shapes : \E g \in GridsOf(s) :
        /\ rasters = <<Raster(<<"CLCD_", "2020">>, WorkingCrs,
                              NorthUp(s[1], s[2], OblongPixel), g)>>
        /\ fishnet = <<Zone(FullBox(s[1], s[2], OblongPixel))>>

InitWindows ==
    \E sx \in Signs, sy \in Signs :
    \E b \in {x \in Boxes(2, 2, SquarePixel) : ValidBox(x)} :
        /\ rasters = <<Raster(<<"CLCD_", "2020">>, WorkingCrs,
                              Transform(2, 2, SquarePixel, sx, sy), GeoData)>>
        /\ fishnet = <<Zone(b), Zone(FullBox(2, 2, SquarePixel))>>

InitScenario ==
    /\ rasters = <<Raster(<<"CLCD_", "2020">>, WorkingCrs,
                          NorthUp(4, 4, ScenarioPixel), ScenarioData)>>
    /\ fishnet = <<Zone(FullBox(4, 4, ScenarioPixel))>>

InitDriver ==
    /\ \E r1 \in RasterPool, r2 \in RasterPool, two \in BOOLEAN :
          rasters = IF two THEN <<r1, r2>> ELSE <<r1>>
    /\ fishnet \in DriverFishnets

Init ==
    /\ script \in Scripts
    /\ (InitMetrics \/ InitWindows \/ InitScenario \/ InitDriver)
    /\ pc = "load"
    /\ r = 1
    /\ idx = 1
    /\ win = NoWin
    /\ sink = {}
    /\ err = "none"

---------------------------------------------------------------------------
(* Actions *)

\* _calculate_metrics up to the zone loop: load the raster, check its
\* coordinate reference, create the metric columns
LoadRaster ==
    /\ pc = "load"
    /\ r <= Len(rasters)
    /\ IF rasters[r].crs # WorkingCrs
       THEN /\ pc' = "raised"
            /\ err' \in LoadErrors
            /\ UNCHANGED <<fishnet, idx, win>>
       ELSE /\ fishnet' = CreateColumns(fishnet, script)
            /\ idx' = 1
            /\ win' = NoWin
            /\ pc' = "zones"
            /\ err' = err
    /\ UNCHANGED <<script, rasters, r, sink>>

\* mutant of ZoneStepPdEd: the values are assigned to the whole column
\* instead of the cell of the row
ZoneStepPdEd_WholeColumn ==
    /\ pc = "zones"
    /\ script = "pdanded"
    /\ idx <= Len(fishnet)
    /\ IF fishnet[idx].bounds = NullGeometry
       THEN /\ win' = ZoneRaised
            /\ pc' = "raised"
            /\ err' = "AttributeError"
            /\ UNCHANGED <<fishnet, idx>>
       ELSE LET t == rasters[r].t
                w == ZoneWindow(rasters[r].data, t, fishnet[idx].bounds)
                row == IF w.outcome = "computed"
                       THEN PdEdRow(w.clipped, ResX(t), ResY(t))
                       ELSE NanRow(script)
            IN  /\ win' = w
                /\ fishnet' = [z \in DOMAIN fishnet |->
                                 [fishnet[z] EXCEPT !.cols = row]]
                /\ idx' = idx + 1
                /\ UNCHANGED <<pc, err>>
    /\ UNCHANGED <<script, rasters, r, sink>>

\* one iteration of the zone loop of pdanded.py
ZoneStepPdEd ==
    /\ pc = "zones"
    /\ script = "pdanded"
    /\ idx <= Len(fishnet)
    /\ IF fishnet[idx].bounds = NullGeometry
       THEN \* row.geometry.bounds of None raises; nothing catches it
            /\ win' = ZoneRaised
            /\ pc' = "raised"
            /\ err' = "AttributeError"
            /\ UNCHANGED <<fishnet, idx>>
       ELSE LET t == rasters[r].t
                w == ZoneWindow(rasters[r].data, t, fishnet[idx].bounds)
            IN  /\ win' = w
                /\ fishnet' = [fishnet EXCEPT ![idx].cols =
                                 IF w.outcome = "computed"
                                 THEN PdEdRow(w.clipped, ResX(t), ResY(t))
                                 ELSE NanRow(script)]
                /\ idx' = idx + 1
                /\ UNCHANGED <<pc, err>>
    /\ UNCHANGED <<script, rasters, r, sink>>

\* one iteration of the zone loop of shdiandlpi.py
ZoneStepShdi ==
    /\ pc = "zones"
    /\ script = "shdiandlpi"
    /\ idx <= Len(fishnet)
    /\ IF fishnet[idx].bounds = NullGeometry
       THEN \* row.geometry.bounds of None raises; nothing catches it
            /\ win' = ZoneRaised
            /\ pc' = "raised"
            /\ err' = "AttributeError"
            /\ UNCHANGED <<fishnet, idx>>
       ELSE LET t == rasters[r].t
                w == ZoneWindow(rasters[r].data, t, fishnet[idx].bounds)
            IN  /\ win' = w
                /\ fishnet' = [fishnet EXCEPT ![idx].cols =
                                 IF w.outcome = "computed"
                                 THEN ShdiRow(w.clipped)
                                 ELSE NanRow(script)]
                /\ idx' = idx + 1
                /\ UNCHANGED <<pc, err>>
    /\ UNCHANGED <<script, rasters, r, sink>>

\* the end of the zone loop, _save_results, and the step of the raster loop
SaveResults ==
    /\ pc = "zones"
    /\ idx > Len(fishnet)
    /\ LET rounded == [z \in DOMAIN fishnet |->
                         [fishnet[z] EXCEPT !.cols =
                             [col \in DOMAIN fishnet[z].cols |->
                                 RoundCell(fishnet[z].cols[col])]]]
       IN  /\ fishnet' = rounded
           /\ sink' = ToFile(sink, OutputPath(rasters[r].name), rounded)
    /\ r' = r + 1
    /\ pc' = IF r + 1 > Len(rasters) THEN "done" ELSE "load"
    /\ UNCHANGED <<script, rasters, idx, win, err>>

Next == LoadRaster \/ ZoneStepPdEd \/ ZoneStepShdi \/ SaveResults

Spec == Init /\ [][Next]_vars

---------------------------------------------------------------------------
(* Notions the properties are stated with *)

\* the raster of the running zone loop
CurData == rasters[r].data
CurT == rasters[r].t

\* a zone step is about to run for zone idx
AtZone == pc = "zones" /\ idx <= Len(fishnet)

\* the zone whose iteration has just run, and its row
Stepped == pc = "zones" /\ idx > 1 /\ win.outcome # "none"
LastRow == fishnet[idx - 1].cols

AllNaN(row) == \A col \in DOMAIN row : row[col] = NaN
SomeNaN(row) == \E col \in DOMAIN row : row[col] = NaN

\* the float window bounds of zone z on the current raster, written out
ColStartOf(z) == Rat(fishnet[z].bounds[1] - CurT.c, CurT.a)
RowStartOf(z) == Rat(fishnet[z].bounds[4] - CurT.f, CurT.e)
ColEndOf(z) == Rat(fishnet[z].bounds[3] - CurT.c, CurT.a)
RowEndOf(z) == Rat(fishnet[z].bounds[2] - CurT.f, CurT.e)

\* col_start < 0, row_start < 0, col_end > width or row_end > height
Straddles(z) ==
    /\ Len(fishnet[z].bounds) = 4
    /\ \/ ColStartOf(z).n < 0
       \/ RowStartOf(z).n < 0
       \/ ColEndOf(z).n > Len(CurData[1]) * ColEndOf(z).d
       \/ RowEndOf(z).n > Len(CurData) * RowEndOf(z).d

\* every pixel of the array is the nodata sentinel (also: no pixel at all)
OnlyNodata(g) == \A i \in DOMAIN g : \A j \in DOMAIN g[i] : g[i][j] = Nodata

---------------------------------------------------------------------------
(* C1 *)

\* C1: in either program, the step of a zone whose float window bounds have
\* col_start < 0, row_start < 0, col_end > width or row_end > height sets
\* every metric of the zone's row to NaN, raises nothing and leaves the loop
\* at the next zone.
C1_OutOfExtentGivesNaN ==
    [][(AtZone /\ Straddles(idx)) =>
          /\ AllNaN(fishnet'[idx].cols)
          /\ DOMAIN fishnet'[idx].cols = MetricCols(script)
          /\ err' = "none"
          /\ pc' = "zones"
          /\ idx' = idx + 1]_vars

\* a first zone out of the extent got NaN and the second zone was computed
C1_Witness ==
    /\ pc = "zones" /\ idx = 3
    /\ Straddles(1) /\ AllNaN(fishnet[1].cols)
    /\ win.outcome = "computed" /\ ~SomeNaN(fishnet[2].cols)

---------------------------------------------------------------------------
(* C2 *)

\* C2: when the extent test passes, the step of a zone whose clipped array
\* is empty or holds only nodata pixels sets every metric of the row to NaN
\* and leaves the loop at the next zone; a clipped array with a pixel other
\* than nodata is not rejected (its row is not the all-NaN row).
C2_EmptyOrNodataGivesNaN ==
    [][(AtZone /\ win'.outcome \in {"empty", "computed"}) =>
          /\ pc' = "zones" /\ idx' = idx + 1 /\ err' = "none"
          /\ OnlyNodata(win'.clipped) => AllNaN(fishnet'[idx].cols)
          /\ ~OnlyNodata(win'.clipped) => ~AllNaN(fishnet'[idx].cols)]_vars

\* a window of nodata pixels only was rejected
C2_Witness ==
    /\ Stepped /\ win.outcome = "empty"
    /\ Size(win.clipped) > 0 /\ OnlyNodata(win.clipped)
    /\ AllNaN(LastRow)

---------------------------------------------------------------------------
(* C3 *)

\* C3 (as claimed): every window on which metrics are computed has
\* 0 <= row_start < row_end <= height and 0 <= col_start < col_end <= width,
\* for any zone box and any transform.  It fails for a transform with
\* a < 0 or e > 0: col_end (row_end) is then negative for a zone that
\* overhangs the extent, passes the extent test, and the slice bound wraps.
C3_WindowInsideRaster ==
    (Stepped /\ win.outcome = "computed") =>
        /\ 0 <= win.i[2] /\ win.i[2] < win.i[4] /\ win.i[4] <= Len(CurData)
        /\ 0 <= win.i[1] /\ win.i[1] < win.i[3] /\ win.i[3] <= Len(CurData[1])

---------------------------------------------------------------------------
(* Notions of the metric properties *)

\* a window was computed by the program named
Computed(s) == Stepped /\ win.outcome = "computed" /\ script = s

\* the number of pixels of the array with code c, and the codes present
PixelsOf(g, c) ==
    Cardinality({p \in (DOMAIN g) \X (DOMAIN g[1]) : g[p[1]][p[2]] = c})
CodesIn(g) == {g[i][j] : i \in DOMAIN g, j \in DOMAIN g[1]}
PixelCount(g) == Len(g) * Len(g[1])

\* 4-adjacency of two pixel positions, side by side or one above the other
SideBySide(p, q) ==
    p[1] = q[1] /\ (p[2] = q[2] + 1 \/ q[2] = p[2] + 1)
Stacked(p, q) ==
    p[2] = q[2] /\ (p[1] = q[1] + 1 \/ q[1] = p[1] + 1)
PixelPairs(g) ==
    ((DOMAIN g) \X (DOMAIN g[1])) \X ((DOMAIN g) \X (DOMAIN g[1]))

RatAdd(x, y) ==
    IF x.d = y.d THEN [n |-> x.n + y.n, d |-> x.d]
    ELSE [n |-> x.n * y.d + y.n * x.d, d |-> x.d * y.d]
RECURSIVE RatSum(_)
RatSum(q) == IF q = <<>> THEN RatOfInt(0) ELSE RatAdd(q[1], RatSum(Tail(q)))

---------------------------------------------------------------------------
(* Exact comparison of products of powers: naturals of any size, as the   *)
(* sequence of their base-10000 digits, lowest first                      *)

RECURSIVE BigTimes(_, _, _)
\* b * k + carry, for a small natural k
BigTimes(b, k, carry) ==
    IF b = <<>>
    THEN IF carry = 0 THEN <<>>
         ELSE <<carry % 10000>> \o BigTimes(<<>>, k, carry \div 10000)
    ELSE <<(b[1] * k + carry) % 10000>>
            \o BigTimes(Tail(b), k, (b[1] * k + carry) \div 10000)

RECURSIVE BigTimesPow(_, _, _)
\* b * k^e, for a small natural k; k is squared while it stays small
BigTimesPow(b, k, e) ==
    IF e = 0 THEN b
    ELSE IF e % 2 = 1 THEN BigTimesPow(BigTimes(b, k, 0), k, e - 1)
    ELSE IF k <= 400 THEN BigTimesPow(b, k * k, e \div 2)
    ELSE BigTimesPow(BigTimes(b, k, 0), k, e - 1)

RECURSIVE BigTimesPowers(_, _, _)
\* b * (prod q[n]^q[n])^t
BigTimesPowers(b, q, t) ==
    IF q = <<>> THEN b
    ELSE BigTimesPowers(BigTimesPow(b, q[1], q[1] * t), Tail(q), t)

RECURSIVE Gcd(_, _)
Gcd(a, b) == IF b = 0 THEN a ELSE Gcd(b, a % b)

RECURSIVE GcdSeq(_)
GcdSeq(q) == IF q = <<>> THEN 0 ELSE Gcd(q[1], GcdSeq(Tail(q)))

RECURSIVE BigLt(_, _)
BigLt(x, y) ==
    IF Len(x) # Len(y) THEN Len(x) < Len(y)
    ELSE IF x = <<>> THEN FALSE
    ELSE IF x[Len(x)] # y[Len(y)] THEN x[Len(x)] < y[Len(y)]
    ELSE BigLt(SubSeq(x, 1, Len(x) - 1), SubSeq(y, 1, Len(y) - 1))

\* A Shannon index v = [counts, s] is ln(e)/s with e = Whole / Parts,
\* Whole = s^(sum counts) and Parts = prod c^c; the t-th powers of both:
ShdiWhole(v, t) == BigTimesPow(<<1>>, v.s, SumSeq(v.counts) * t)
ShdiParts(v, t) == BigTimesPowers(<<1>>, v.counts, t)

\* SHDI = 0, SHDI > 0, SHDI = ln k
ShdiIsZero(v) == ShdiWhole(v, 1) = ShdiParts(v, 1)
ShdiIsPositive(v) == BigLt(ShdiParts(v, 1), ShdiWhole(v, 1))
ShdiIsLn(v, k) == ShdiWhole(v, 1) = BigTimesPow(ShdiParts(v, 1), k, v.s)

\* ln(e(x))/x.s = ln(e(y))/y.s, that is e(x)^(y.s) = e(y)^(x.s)
LnEq(x, y) ==
    LET tx == IF x.s = y.s THEN 1 ELSE y.s
        ty == IF x.s = y.s THEN 1 ELSE x.s
    IN  BigTimesPowers(ShdiWhole(x, tx), y.counts, ty)
            = BigTimesPowers(ShdiWhole(y, ty), x.counts, tx)

---------------------------------------------------------------------------
(* C4 *)

\* the class statistics with the nodata sentinel left out
ValidCodes(g) == CodesIn(g) \ {Nodata}
ValidPixels(g) == PixelCount(g) - PixelsOf(g, Nodata)
ValidShdi(g) ==
    LET cs == SortedSeq(ValidCodes(g))
    IN  [counts |-> [u \in DOMAIN cs |-> PixelsOf(g, cs[u])],
         s |-> ValidPixels(g)]

\* C4 (as claimed): in a computed window of shdiandlpi.py the nodata
\* sentinel is no class: the number m of classes CONTAG uses counts the
\* other codes only, LPI is the largest count of a code other than nodata
\* over the number of pixels other than nodata, and SHDI is taken over the
\* codes other than nodata with those fractions.
C4_NodataExcluded ==
    Computed("shdiandlpi") =>
        LET g == win.clipped
            row == LastRow
            m == Cardinality(ValidCodes(g))
        IN  /\ IF m = 1 THEN row[<<"CONTAG", 0>>] = NaN
                        ELSE /\ row[<<"CONTAG", 0>>].k = "contag"
                             /\ row[<<"CONTAG", 0>>].m = m
            /\ RatEq(row[<<"LPI", 0>>],
                     Rat(SetMax({PixelsOf(g, c) : c \in ValidCodes(g)}),
                         ValidPixels(g)))
            /\ LnEq(row[<<"SHDI", 0>>], ValidShdi(g))

---------------------------------------------------------------------------
(* C5 *)

\* C5: in a computed window of pdanded.py, for every class c of 1..6, PD_c
\* is (pixels of c * cell area) / (pixels of the window * cell area), which
\* is pixels of c / pixels of the window; PD_c is 0 exactly when no pixel
\* of the window has the code c.
C5_PatchDensity ==
    Computed("pdanded") =>
        \A c \in ClassDomain :
            LET g == win.clipped
                v == LastRow[<<"PD", c>>]
                cellArea == ResX(CurT) * ResY(CurT)
            IN  /\ v.k = "num"
                /\ v.n = PixelsOf(g, c) * cellArea
                /\ v.d = PixelCount(g) * cellArea
                /\ v.n * PixelCount(g) = PixelsOf(g, c) * v.d
                /\ (v.n = 0) <=> (c \notin CodesIn(g))

\* a window in which class 1 covers a part and class 2 is absent
C5_Witness ==
    /\ Computed("pdanded")
    /\ 0 < LastRow[<<"PD", 1>>].n
    /\ LastRow[<<"PD", 1>>].n < LastRow[<<"PD", 1>>].d
    /\ LastRow[<<"PD", 2>>].n = 0
    /\ ResX(CurT) * ResY(CurT) > 1

---------------------------------------------------------------------------
(* C6 *)

\* C6: in a computed window of pdanded.py whose pixels all carry a code of
\* 1..6, the six PD values sum to 1.
C6_PatchDensitiesSumToOne ==
    (Computed("pdanded") /\ CodesIn(win.clipped) \subseteq ClassDomain) =>
        RatEq(RatSum([c \in ClassDomain |-> LastRow[<<"PD", c>>]]), RatOfInt(1))

\* a window of two classes, all pixels classified
C6_Witness ==
    /\ Computed("pdanded")
    /\ CodesIn(win.clipped) \subseteq ClassDomain
    /\ Cardinality(CodesIn(win.clipped)) >= 2

---------------------------------------------------------------------------
(* C7 *)

\* the edge length of class c: one pixel width for every ordered pair of
\* side-by-side pixels and one pixel height for every ordered pair of
\* stacked pixels, the first of class c and the second not
EdgeLengthOf(g, c, pixelWidth, pixelHeight) ==
    LET differ(p, q) == g[p[1]][p[2]] = c /\ g[q[1]][q[2]] # c
    IN  pixelWidth * Cardinality({pq \in PixelPairs(g) :
                         SideBySide(pq[1], pq[2]) /\ differ(pq[1], pq[2])})
        + pixelHeight * Cardinality({pq \in PixelPairs(g) :
                         Stacked(pq[1], pq[2]) /\ differ(pq[1], pq[2])})

\* C7: in a computed window of pdanded.py, for every class c of 1..6, ED_c
\* is the edge length of c over (pixels of the window * cell area); a pixel
\* outside the window is no neighbour.
C7_EdgeDensity ==
    Computed("pdanded") =>
        \A c \in ClassDomain :
            LET g == win.clipped
                v == LastRow[<<"ED", c>>]
            IN  /\ v.k = "num"
                /\ RatEq(v, Rat(EdgeLengthOf(g, c, ResX(CurT), ResY(CurT)),
                                PixelCount(g) * ResX(CurT) * ResY(CurT)))

\* a window where class 1 has a differing neighbour beside it and another
\* below or above it, with oblong pixels
C7_Witness ==
    /\ Computed("pdanded")
    /\ ResX(CurT) # ResY(CurT)
    /\ EdgeLengthOf(win.clipped, 1, 1, 0) > 0
    /\ EdgeLengthOf(win.clipped, 1, 0, 1) > 0
    /\ LastRow[<<"ED", 1>>].n > 0

---------------------------------------------------------------------------
(* C8 *)

\* C8: for a computed window of shdiandlpi.py of R rows and C columns, the
\* adjacency matrix of the CONTAG scan holds at [a][b] the number of
\* ordered pairs of 4-adjacent pixels whose first has the a-th code and
\* whose second has the b-th code (same codes included), so its entries
\* sum to 2 * (R * (C - 1) + (R - 1) * C).
C8_AdjacencyMatrix ==
    Computed("shdiandlpi") =>
        LET g == win.clipped
            codes == SortedSeq(CodesIn(g))
            mat == AdjacencyMatrix(g)
            R == Len(g)
            C == Len(g[1])
        IN  /\ DOMAIN mat = DOMAIN codes
            /\ \A a \in DOMAIN codes : \A b \in DOMAIN codes :
                  mat[a][b] = Cardinality({pq \in PixelPairs(g) :
                      /\ SideBySide(pq[1], pq[2]) \/ Stacked(pq[1], pq[2])
                      /\ g[pq[1][1]][pq[1][2]] = codes[a]
                      /\ g[pq[2][1]][pq[2][2]] = codes[b]})
            /\ MatrixSum(mat) = 2 * (R * (C - 1) + (R - 1) * C)

\* a 2 x 2 window with two codes, one of them on two adjacent pixels
C8_Witness ==
    /\ Computed("shdiandlpi")
    /\ Len(win.clipped) = 2 /\ Len(win.clipped[1]) = 2
    /\ Cardinality(CodesIn(win.clipped)) = 2
    /\ AdjacencyMatrix(win.clipped)[1][1] > 0
    /\ AdjacencyMatrix(win.clipped)[1][2] > 0

---------------------------------------------------------------------------
(* C9 *)

\* C9: in a computed window of shdiandlpi.py, LPI is the largest number of
\* pixels of one code of the window over the number of pixels of the
\* window, and 0 <= LPI <= 1.
C9_LargestPatchIndex ==
    Computed("shdiandlpi") =>
        LET g == win.clipped
            v == LastRow[<<"LPI", 0>>]
            largest == SetMax({PixelsOf(g, c) : c \in CodesIn(g)})
        IN  /\ v.k = "num"
            /\ v.n * PixelCount(g) = largest * v.d
            /\ 0 <= v.n /\ v.n <= v.d

\* a window of two codes with unequal counts
C9_Witness ==
    /\ Computed("shdiandlpi")
    /\ Cardinality({PixelsOf(win.clipped, c) : c \in CodesIn(win.clipped)}) >= 2
    /\ LastRow[<<"LPI", 0>>].n < LastRow[<<"LPI", 0>>].d

---------------------------------------------------------------------------
(* C10 *)

\* C10: in a computed window of shdiandlpi.py, SHDI is 0 if and only if the
\* window has exactly one distinct code, and is positive otherwise.
C10_ShdiZeroIffOneClass ==
    Computed("shdiandlpi") =>
        LET g == win.clipped
            v == LastRow[<<"SHDI", 0>>]
            one == Cardinality(CodesIn(g)) = 1
        IN  /\ v.k = "ln" /\ v.s > 0
            /\ one <=> ShdiIsZero(v)
            /\ ~one => ShdiIsPositive(v)

\* a one-code window of several pixels, with SHDI = 0
C10_Witness ==
    /\ Computed("shdiandlpi")
    /\ PixelCount(win.clipped) > 1
    /\ Cardinality(CodesIn(win.clipped)) = 1
    /\ ShdiIsZero(LastRow[<<"SHDI", 0>>])

\* a window of several codes, with SHDI > 0
C10_WitnessPositive ==
    /\ Computed("shdiandlpi")
    /\ Cardinality(CodesIn(win.clipped)) >= 3
    /\ ShdiIsPositive(LastRow[<<"SHDI", 0>>])

---------------------------------------------------------------------------
(* C11 *)

\* C11: in a computed window of shdiandlpi.py with m >= 2 distinct codes,
\* the adjacency sum is nonzero (there is a term), every p_ik summed is in
\* (0, 1), and CONTAG = (1 + sum(p_ik ln p_ik) / (2 ln m)) * 100 is in
\* (0, 100].  With p_ik = n_ik / D in lowest common terms:
\*     CONTAG <= 100  iff  sum p ln p <= 0     iff  prod n^n <= D^(sum n)
\*     CONTAG > 0     iff  sum p ln p > -2 ln m
\*                    iff  D^(sum n) < m^(2D) * prod n^n
C11_ContagRange ==
    (Computed("shdiandlpi") /\ Cardinality(CodesIn(win.clipped)) >= 2) =>
        LET v == LastRow[<<"CONTAG", 0>>]
        IN  /\ v.k = "contag"
            /\ v.m = Cardinality(CodesIn(win.clipped))
            /\ Len(v.terms) > 0
            /\ \A t \in DOMAIN v.terms :
                  /\ v.terms[t].d = v.terms[1].d
                  /\ 0 < v.terms[t].n /\ v.terms[t].n < v.terms[t].d
            /\ LET g == Gcd(v.terms[1].d,
                            GcdSeq([t \in DOMAIN v.terms |-> v.terms[t].n]))
                   D == v.terms[1].d \div g
                   ns == [t \in DOMAIN v.terms |-> v.terms[t].n \div g]
                   whole == BigTimesPow(<<1>>, D, SumSeq(ns))
                   parts == BigTimesPowers(<<1>>, ns, 1)
               IN  /\ g > 0
                   /\ ~BigLt(whole, parts)
                   /\ BigLt(whole, BigTimesPow(parts, v.m, 2 * D))

\* a window of three codes whose CONTAG has terms of like and unlike pairs
C11_Witness ==
    /\ Computed("shdiandlpi")
    /\ Cardinality(CodesIn(win.clipped)) = 3
    /\ LastRow[<<"CONTAG", 0>>].k = "contag"
    /\ Len(LastRow[<<"CONTAG", 0>>].terms) >= 5

---------------------------------------------------------------------------
(* C12 *)

\* C12 (as claimed): the row of a zone whose window was computed has no NaN
\* metric, so every row written by a zone step is either all NaN (window
\* out of extent, empty or all nodata) or all finite.  It fails in
\* shdiandlpi.py for a computed window of one code: SHDI and LPI are
\* numbers and CONTAG is NaN.
C12_RowAllNaNOrAllFinite ==
    Stepped =>
        /\ win.outcome = "computed" => ~SomeNaN(LastRow)
        /\ AllNaN(LastRow) \/ ~SomeNaN(LastRow)

---------------------------------------------------------------------------
(* Notions of the driver properties *)

\* the raster loop is about to load a raster that is not in EPSG:32649
AtMismatch ==
    pc = "load" /\ r <= Len(rasters) /\ rasters[r].crs # WorkingCrs

\* the file that _save_results writes for raster number j is in the sink
Written(j) == \E file \in sink : file.path = OutputPath(rasters[j].name)

---------------------------------------------------------------------------
(* C13 *)

\* C13 (as claimed): loading a raster that is not in EPSG:32649 ends with
\* the coordinate-reference error (the ValueError of _calculate_metrics),
\* with no zone computed and no table written for it.  It fails: the
\* ValueError is never reached, _load_raster enters its reprojection branch
\* and an error of that branch is what is raised.
C13_CrsMismatchRejected ==
    [][AtMismatch =>
          /\ err' = "ValueError"
          /\ pc' = "raised"
          /\ fishnet' = fishnet /\ idx' = idx /\ sink' = sink]_vars

---------------------------------------------------------------------------
(* C14 *)

\* C14 (as claimed): a raster that cannot be loaded ends only its own turn
\* of the raster loop: the loop goes on to the next raster (or ends when
\* it was the last one) and nothing is written for the failed raster.  It
\* fails: the exception leaves calculate(), the run stops at that raster
\* and no later raster is processed.
C14_FatalErrorAbortsOnlyThatRaster ==
    [][AtMismatch =>
          /\ r' = r + 1
          /\ pc' = IF r + 1 > Len(rasters) THEN "done" ELSE "load"
          /\ sink' = sink]_vars

---------------------------------------------------------------------------
(* C15 *)

\* C15 (as claimed): every step of the zone loop, whatever the zone, leaves
\* the loop at the next zone of the same raster with no exception raised,
\* so that the loop reaches its end and the table is written.  It fails
\* for a zone whose geometry is None: the step raises and nothing in the
\* loop or in calculate() catches it.
C15_NoFailureEscapesZoneLoop ==
    [][AtZone =>
          /\ pc' = "zones"
          /\ idx' = idx + 1
          /\ r' = r
          /\ err' = "none"]_vars

---------------------------------------------------------------------------
(* C16 *)

\* C16 (as claimed): pdanded.py computes no PD/ED row for a window that
\* holds a code outside 1..6 other than the nodata sentinel: such a window
\* ends the run with an error instead.  It fails: the zone loop never looks
\* at the codes of the window, and the row is computed.
C16_MalformedClassDomainRejected ==
    Computed("pdanded") => CodesIn(win.clipped) \subseteq (ClassDomain \cup {Nodata})

---------------------------------------------------------------------------
(* C17 *)

\* C17: for a computed window of at least 2 pixels whose pixels all carry
\* one class c of 1..6: pdanded.py gives PD_c = 1, ED_c = 0 and
\* PD_k = ED_k = 0 for every other class k of 1..6; shdiandlpi.py gives
\* SHDI = 0 and LPI = 1.
C17_SingleClassWindow ==
    (/\ Stepped /\ win.outcome = "computed"
     /\ PixelCount(win.clipped) >= 2
     /\ \E c \in ClassDomain : CodesIn(win.clipped) = {c}) =>
        /\ script = "pdanded" =>
              \A k \in ClassDomain :
                  /\ LastRow[<<"PD", k>>].k = "num"
                  /\ LastRow[<<"ED", k>>].k = "num"
                  /\ IF k \in CodesIn(win.clipped)
                     THEN LastRow[<<"PD", k>>].n = LastRow[<<"PD", k>>].d
                     ELSE LastRow[<<"PD", k>>].n = 0
                  /\ LastRow[<<"ED", k>>].n = 0
        /\ script = "shdiandlpi" =>
              /\ ShdiIsZero(LastRow[<<"SHDI", 0>>])
              /\ LastRow[<<"LPI", 0>>].k = "num"
              /\ LastRow[<<"LPI", 0>>].n = LastRow[<<"LPI", 0>>].d

\* a 2 x 2 window of class 2 in pdanded.py
C17_Witness ==
    /\ Computed("pdanded")
    /\ Len(win.clipped) = 2 /\ Len(win.clipped[1]) = 2
    /\ CodesIn(win.clipped) = {2}
    /\ LastRow[<<"PD", 2>>].n = LastRow[<<"PD", 2>>].d
    /\ LastRow[<<"ED", 2>>].n = 0

\* a 1 x 3 window of class 1 in shdiandlpi.py
C17_WitnessShdi ==
    /\ Computed("shdiandlpi")
    /\ Len(win.clipped) = 1 /\ Len(win.clipped[1]) = 3
    /\ CodesIn(win.clipped) = {1}
    /\ ShdiIsZero(LastRow[<<"SHDI", 0>>])

---------------------------------------------------------------------------
(* C18 *)

\* C18: for the 4 x 4 window of four 2 x 2 blocks of classes 1, 2, 3, 4 with
\* pixels of 30 x 30: pdanded.py gives PD_1..4 = 1/4, PD_5 = PD_6 = 0 and
\* for each class of 1..4 the edge length 120 over the area 14400;
\* shdiandlpi.py gives LPI = 1/4 and SHDI = ln 4, and the adjacency matrix
\* of its CONTAG sums to 48 with 12 in every row.
C18_FourBlockScenario ==
    (/\ Stepped /\ win.outcome = "computed"
     /\ win.clipped = ScenarioData
     /\ ResX(CurT) = 30 /\ ResY(CurT) = 30) =>
        /\ script = "pdanded" =>
              /\ \A c \in 1..4 :
                    /\ LastRow[<<"PD", c>>].k = "num"
                    /\ RatEq(LastRow[<<"PD", c>>], Rat(1, 4))
                    /\ LastRow[<<"ED", c>>] = Num(Rat(120, 14400))
              /\ \A c \in 5..6 : LastRow[<<"PD", c>>] = Num(Rat(0, 14400))
        /\ script = "shdiandlpi" =>
              /\ LastRow[<<"LPI", 0>>].k = "num"
              /\ RatEq(LastRow[<<"LPI", 0>>], Rat(1, 4))
              /\ ShdiIsLn(LastRow[<<"SHDI", 0>>], 4)
              /\ LET mat == AdjacencyMatrix(win.clipped)
                 IN  /\ MatrixSum(mat) = 48
                     /\ DOMAIN mat = 1..4
                     /\ \A a \in 1..4 : SumSeq(mat[a]) = 12
              /\ LastRow[<<"CONTAG", 0>>].k = "contag"
              /\ LastRow[<<"CONTAG", 0>>].m = 4
              /\ \A t \in DOMAIN LastRow[<<"CONTAG", 0>>].terms :
                    LastRow[<<"CONTAG", 0>>].terms[t].d = 16 * 48

\* the scenario window was computed by shdiandlpi.py
C18_Witness ==
    /\ Computed("shdiandlpi")
    /\ win.clipped = ScenarioData
    /\ ShdiIsLn(LastRow[<<"SHDI", 0>>], 4)
    /\ Len(LastRow[<<"CONTAG", 0>>].terms) = 12

\* the scenario window was computed by pdanded.py
C18_WitnessPdEd ==
    /\ Computed("pdanded")
    /\ win.clipped = ScenarioData
    /\ LastRow[<<"ED", 1>>].n = 120

---------------------------------------------------------------------------
(* C19 *)

\* the window of zone z on the current raster
WindowOf(z) == ZoneWindow(CurData, CurT, fishnet[z].bounds)

\* every raster of the list has the data and the transform of the first
SameRasters ==
    \A j \in DOMAIN rasters :
        rasters[j].data = rasters[1].data /\ rasters[j].t = rasters[1].t

\* C19: the metrics of a window depend only on the window and the cell
\* size, not on what was computed before: two zones of a raster with equal
\* computed windows have equal rows, and when the rasters of the list have
\* equal data and transform, the rows computed for a later raster are those
\* written for the earlier ones, zone by zone.
C19_SameWindowSameMetrics ==
    /\ pc = "zones" =>
          \A y \in 1..(idx - 1) : \A z \in 1..(idx - 1) :
              (/\ WindowOf(y).outcome = "computed"
               /\ WindowOf(z).outcome = "computed"
               /\ WindowOf(y).clipped = WindowOf(z).clipped)
                  => fishnet[y].cols = fishnet[z].cols
    /\ (pc = "zones" /\ SameRasters) =>
          \A file \in sink : \A z \in 1..(idx - 1) :
              \A col \in MetricCols(script) :
                  file.table[z].cols[col] = RoundCell(fishnet[z].cols[col])
    /\ SameRasters =>
          \A f1 \in sink : \A f2 \in sink : \A z \in DOMAIN fishnet :
              f1.table[z].cols = f2.table[z].cols

\* two rasters of equal data were processed one after the other and the
\* two tables written hold the same computed rows
C19_Witness ==
    /\ pc = "done" /\ Len(rasters) = 2 /\ SameRasters
    /\ Cardinality(sink) = 2
    /\ \A file \in sink : ~AllNaN(file.table[1].cols)
    /\ \A f1 \in sink : \A f2 \in sink : f1.table = f2.table

---------------------------------------------------------------------------
(* C20 *)

\* C20: a step of the zone loop writes only the row of its zone, and what
\* it writes is not rounded: PD, ED and LPI are the exact quotients, SHDI
\* and CONTAG the unrounded logarithmic values.  The save step finds every
\* cell unrounded, rounds each cell once to 4 decimal places, and writes
\* the rounded table.
C20_RoundedOnlyAtSave ==
    [][/\ (AtZone /\ pc' = "zones") =>
              LET row == fishnet'[idx].cols
                  g == win'.clipped
                  area == PixelCount(g) * ResX(CurT) * ResY(CurT)
              IN  /\ \A z \in DOMAIN fishnet : z # idx => fishnet'[z] = fishnet[z]
                  /\ \A col \in DOMAIN row : row[col].k \in {"num", "NaN", "ln", "contag"}
                  /\ (win'.outcome = "computed" /\ script = "pdanded") =>
                        \A c \in ClassDomain :
                            /\ row[<<"PD", c>>].n * PixelCount(g)
                                   = PixelsOf(g, c) * row[<<"PD", c>>].d
                            /\ row[<<"ED", c>>].n * area
                                   = EdgeLengthOf(g, c, ResX(CurT), ResY(CurT))
                                        * row[<<"ED", c>>].d
                  /\ (win'.outcome = "computed" /\ script = "shdiandlpi") =>
                        /\ row[<<"LPI", 0>>].n * PixelCount(g)
                               = SetMax({PixelsOf(g, c) : c \in CodesIn(g)})
                                    * row[<<"LPI", 0>>].d
                        /\ row[<<"SHDI", 0>>].k = "ln"
                        /\ row[<<"CONTAG", 0>>].k \in {"contag", "NaN"}
       /\ (pc = "zones" /\ idx > Len(fishnet)) =>
              /\ \A z \in DOMAIN fishnet : \A col \in MetricCols(script) :
                    LET v == fishnet[z].cols[col]
                    IN  /\ v.k \in {"num", "NaN", "ln", "contag"}
                        /\ fishnet'[z].cols[col] =
                              IF v.k = "num"
                              THEN [k |-> "num", n |-> RoundRat(v).n, d |-> RoundRat(v).d]
                              ELSE IF v.k = "NaN" THEN v
                              ELSE [k |-> "round", of |-> v]
              /\ \E file \in sink' :
                    /\ file.path = OutputPath(rasters[r].name)
                    /\ file.table = fishnet'
      ]_vars

\* a patch density of 1/3 was written unrounded by the zone loop and saved
\* as 0.3333
C20_Witness ==
    /\ pc = "done" /\ script = "pdanded"
    /\ \E file \in sink :
          file.table[1].cols[<<"PD", 1>>] = [k |-> "num", n |-> 3333, d |-> 10000]

---------------------------------------------------------------------------
(* C21 *)

\* the floor of a rational, and the floors of the float window bounds
\* <<col_start, row_start, col_end, row_end>>
FloorOf(x) == x.n \div x.d
Floored(f) == [n \in 1..4 |-> FloorOf(f[n])]

\* C21 (as claimed): the integer window of a zone is the floor of its float
\* bounds, and a zone whose floored window has 0 <= col_start,
\* 0 <= row_start, col_end <= width and row_end <= height is not rejected
\* by the extent test.  It fails: the extent test is made on the float
\* bounds, so a zone whose edge overhangs the raster by less than a pixel
\* is rejected although its floored window is inside.
C21_FlooredWindowDecidesExtent ==
    Stepped =>
        /\ win.outcome # "extent" => win.i = Floored(win.f)
        /\ (/\ 0 <= Floored(win.f)[1]
            /\ 0 <= Floored(win.f)[2]
            /\ Floored(win.f)[3] <= Len(CurData[1])
            /\ Floored(win.f)[4] <= Len(CurData)) => win.outcome # "extent"

---------------------------------------------------------------------------
(* C22 *)

\* the unordered pairs of 4-adjacent pixels of different codes, side by side
\* and stacked
UnlikeBeside(g) ==
    {pq \in PixelPairs(g) :
        /\ pq[1][1] = pq[2][1] /\ pq[2][2] = pq[1][2] + 1
        /\ g[pq[1][1]][pq[1][2]] # g[pq[2][1]][pq[2][2]]}
UnlikeStacked(g) ==
    {pq \in PixelPairs(g) :
        /\ pq[1][2] = pq[2][2] /\ pq[2][1] = pq[1][1] + 1
        /\ g[pq[1][1]][pq[1][2]] # g[pq[2][1]][pq[2][2]]}

\* C22: for a computed window of pdanded.py whose pixels all carry a code of
\* 1..6, the edge lengths of the six classes with unit pixel width and
\* height sum to twice the number of unordered adjacent pairs of different
\* classes; with the pixel size of the raster, the edge lengths of the row
\* (ED_c * area) sum to twice (width * pairs side by side + height * pairs
\* stacked).
C22_EdgesCountedTwice ==
    (Computed("pdanded") /\ CodesIn(win.clipped) \subseteq ClassDomain) =>
        LET g == win.clipped
            beside == Cardinality(UnlikeBeside(g))
            stacked == Cardinality(UnlikeStacked(g))
        IN  /\ SumSeq([c \in ClassDomain |-> calculate_edge_length(g, c, 1, 1)])
                  = 2 * (beside + stacked)
            /\ \A c \in ClassDomain :
                  LastRow[<<"ED", c>>].d = PixelCount(g) * ResX(CurT) * ResY(CurT)
            /\ SumSeq([c \in ClassDomain |-> LastRow[<<"ED", c>>].n])
                  = 2 * (ResX(CurT) * beside + ResY(CurT) * stacked)

\* a 2 x 2 window of classes 1 and 2 with unlike pairs of both kinds
C22_Witness ==
    /\ Computed("pdanded")
    /\ CodesIn(win.clipped) = {1, 2}
    /\ Cardinality(UnlikeBeside(win.clipped)) >= 1
    /\ Cardinality(UnlikeStacked(win.clipped)) >= 1
    /\ LastRow[<<"ED", 1>>].n > 0 /\ LastRow[<<"ED", 2>>].n > 0

---------------------------------------------------------------------------
(* C23 *)

\* C23: for a computed window of shdiandlpi.py, the adjacency matrix sums
\* to 0 exactly when the window is 1 x 1; the window then has m = 1, the
\* double loop of CONTAG adds no term, and the step completes (CONTAG is
\* written, nothing is raised, the loop is at the next zone).
C23_ZeroAdjacencySkipsTerms ==
    Computed("shdiandlpi") =>
        LET g == win.clipped
            total == MatrixSum(AdjacencyMatrix(g))
        IN  /\ (total = 0) <=> (Len(g) = 1 /\ Len(g[1]) = 1)
            /\ (total = 0) =>
                  /\ Cardinality(CodesIn(g)) = 1
                  /\ ContagTerms(g, PixelCount(g)) = <<>>
                  /\ LastRow[<<"CONTAG", 0>>].k \in {"NaN", "contag"}
                  /\ err = "none"

\* a 1 x 1 window was computed
C23_Witness ==
    /\ Computed("shdiandlpi")
    /\ Len(win.clipped) = 1 /\ Len(win.clipped[1]) = 1
    /\ MatrixSum(AdjacencyMatrix(win.clipped)) = 0
    /\ LastRow[<<"SHDI", 0>>].k = "ln"

---------------------------------------------------------------------------
(* C24 *)

\* every zone of the table has been processed for the current raster
AllZonesDone == pc = "zones" /\ idx > Len(fishnet)

\* the steps of the two loops come in order: the raster index moves by one
\* and only when the table is written, which happens only when every zone
\* of the current raster has been processed; zones go in table order
OrderOfSteps ==
    /\ r' = r \/ r' = r + 1
    /\ (sink' # sink \/ r' # r) =>
          /\ AllZonesDone
          /\ r' = r + 1
          /\ \E file \in sink' :
                /\ file.path = OutputPath(rasters[r].name)
                /\ file.table = fishnet'
                /\ sink' = {old \in sink : old.path # file.path} \cup {file}
    /\ AllZonesDone =>
          (r' = r + 1 /\ \E file \in sink' : file.table = fishnet')
    /\ (pc = "load" /\ pc' = "zones") => (idx' = 1 /\ r' = r)
    /\ (pc = "zones" /\ idx' # idx) =>
          (idx <= Len(fishnet) /\ idx' = idx + 1 /\ r' = r /\ sink' = sink)

\* the run has ended, normally or by an exception that left calculate()
RunEnded == pc \in {"done", "raised"}

\* C24: rasters are taken in list order and zones in table order, a table
\* is written only after every zone of its raster and before any zone of
\* the next raster, and every raster of the list that is on the table's
\* grid gets its table written: when the run has ended, the sink holds a
\* table for each of them.
C24_OrderAndSingleWrite ==
    /\ [][OrderOfSteps]_vars
    /\ [](RunEnded =>
            \A j \in 1..Len(rasters) :
                rasters[j].crs = WorkingCrs =>
                    \E file \in sink :
                        file.path = OutputPath(rasters[j].name))


---------------------------------------------------------------------------
(* C25 *)

\* a cell holds NaN or a computed number, not the None placeholder
Filled(cell) == cell.k \in {"NaN", "num", "ln", "contag"}

\* the zones of the table, in order
ZonesOf(gdf) == [z \in DOMAIN gdf |-> gdf[z].bounds]

\* every zone before idx has been visited, no zone from idx on has
RowsUpToIdx ==
    pc = "zones" =>
        \A z \in DOMAIN fishnet :
            /\ DOMAIN fishnet[z].cols = MetricCols(script)
            /\ \A col \in MetricCols(script) :
                  IF z < idx THEN Filled(fishnet[z].cols[col])
                             ELSE fishnet[z].cols[col] = None

\* a step keeps the zones and their order, and a zone step visits zone idx
\* and moves to zone idx + 1
VisitsInOrder ==
    /\ ZonesOf(fishnet') = ZonesOf(fishnet)
    /\ (AtZone /\ pc' = "zones") =>
          /\ idx' = idx + 1
          /\ \A col \in MetricCols(script) : Filled(fishnet'[idx].cols[col])

\* C25: when the zone loop of a raster finishes, the table has one row per
\* input zone in the input order and every metric cell of every row holds
\* NaN or a computed number, none the None placeholder; zones are visited
\* one after the other, each once, none skipped.
C25_EveryRowFilledOnce ==
    /\ [](RowsUpToIdx)
    /\ [](AllZonesDone =>
            \A z \in DOMAIN fishnet : \A col \in MetricCols(script) :
                Filled(fishnet[z].cols[col]))
    /\ [][VisitsInOrder]_vars

\* the loop has finished with a rejected zone and a computed zone
C25_Witness ==
    /\ AllZonesDone
    /\ Len(fishnet) = 2
    /\ AllNaN(fishnet[2].cols)
    /\ ~AllNaN(fishnet[1].cols)

---------------------------------------------------------------------------
(* C26 *)

\* the row of one zone, computed from one raster and the zone alone
RowFor(ras, b, s) ==
    LET w == ZoneWindow(ras.data, ras.t, b)
    IN  IF w.outcome # "computed" THEN [col \in MetricCols(s) |-> NaN]
        ELSE IF s = "pdanded" THEN PdEdRow(w.clipped, ResX(ras.t), ResY(ras.t))
        ELSE ShdiRow(w.clipped)

\* the table of one raster, computed from that raster and the zones alone
TableFor(ras, zones, s) ==
    [z \in DOMAIN zones |->
        [bounds |-> zones[z],
         cols |-> [col \in MetricCols(s) |-> RoundCell(RowFor(ras, zones[z], s)[col])]]]

\* C26: the table written for a raster is a function of that raster and
\* the zones only: whatever the table object holds from earlier rasters of
\* the run (their rounded values), the table saved for the current raster
\* is the one computed from the current raster and the zones alone, and
\* every table in the sink is that of one processed raster.
C26_TableDependsOnlyOnItsRaster ==
    /\ [][AllZonesDone =>
            \E file \in sink' :
                /\ file.path = OutputPath(rasters[r].name)
                /\ file.table = TableFor(rasters[r], ZonesOf(fishnet), script)
         ]_vars
    /\ [](\A file \in sink :
            \E j \in 1..(r - 1) :
                /\ file.path = OutputPath(rasters[j].name)
                /\ file.table = TableFor(rasters[j], ZonesOf(fishnet), script))

\* two rasters with different data were processed one after the other: the
\* second zone is computed in the first table and rejected in the second
C26_Witness ==
    /\ pc = "done" /\ Len(rasters) = 2
    /\ rasters[1].data # rasters[2].data
    /\ \E f1 \in sink : \E f2 \in sink :
          /\ f1.path = OutputPath(rasters[1].name)
          /\ f2.path = OutputPath(rasters[2].name)
          /\ ~AllNaN(f1.table[2].cols)
          /\ AllNaN(f2.table[2].cols)
          /\ ~AllNaN(f2.table[1].cols)

---------------------------------------------------------------------------
(* C27 *)

\* C27: the step that processes zone idx of a raster changes only the
\* metric cells of row idx: every other row keeps its cells, every row
\* keeps its geometry, the table keeps its length, and the raster list
\* (grids, transforms, names) is unchanged.
C27_ZoneStepWritesOnlyItsRow ==
    [][AtZone =>
          /\ DOMAIN fishnet' = DOMAIN fishnet
          /\ \A z \in DOMAIN fishnet :
                /\ fishnet'[z].bounds = fishnet[z].bounds
                /\ z # idx => fishnet'[z].cols = fishnet[z].cols
          /\ rasters' = rasters
          /\ r' = r
          /\ sink' = sink
      ]_vars

\* the second zone was processed and changed its row, while the first row,
\* already computed, is still there
C27_Witness ==
    /\ pc = "zones" /\ idx = 3 /\ Len(fishnet) = 2
    /\ win.outcome = "computed"
    /\ ~AllNaN(fishnet[1].cols)
    /\ fishnet[2].cols # fishnet[1].cols
    /\ \A col \in MetricCols(script) : Filled(fishnet[2].cols[col])

---------------------------------------------------------------------------
(* C28 *)

\* the sum of row a of the adjacency matrix without its diagonal entry
OffDiagonalRowSum(mat, a) ==
    SumSeq([b \in DOMAIN mat |-> IF b = a THEN 0 ELSE mat[a][b]])

\* C28: on every computed window and for every code c present in it, the
\* edge length that the PD/ED scan gives for c with pixel width and height
\* 1 equals the sum, over the codes k other than c, of the entry [c][k] of
\* the adjacency matrix of the CONTAG scan on the same window.
C28_EdgeScanAgreesWithAdjacency ==
    (Stepped /\ win.outcome = "computed") =>
        LET g == win.clipped
            unique == Unique(g)
            mat == AdjacencyMatrix(g)
        IN  \A c \in CodesIn(g) :
                calculate_edge_length(g, c, 1, 1)
                    = OffDiagonalRowSum(mat, ClassToIndex(unique, c))

\* a window with three codes, one of them nodata, where the class in the
\* middle has edges with both others
C28_Witness ==
    /\ Stepped /\ win.outcome = "computed"
    /\ Cardinality(CodesIn(win.clipped)) = 3
    /\ Nodata \in CodesIn(win.clipped)
    /\ \E c \in CodesIn(win.clipped) \ {Nodata} :
          /\ calculate_edge_length(win.clipped, c, 1, 1) >= 2
          /\ AdjacencyMatrix(win.clipped)
                [ClassToIndex(Unique(win.clipped), c)]
                [ClassToIndex(Unique(win.clipped), Nodata)] > 0

---------------------------------------------------------------------------
(* C29 *)

\* C29: on every computed window the adjacency matrix of the CONTAG scan
\* is symmetric and every entry of its diagonal is even.
C29_AdjacencySymmetricEvenDiagonal ==
    (Stepped /\ win.outcome = "computed") =>
        LET mat == AdjacencyMatrix(win.clipped)
        IN  \A a \in DOMAIN mat :
                /\ mat[a][a] % 2 = 0
                /\ \A b \in DOMAIN mat : mat[a][b] = mat[b][a]

\* a window with two classes, where one class has two adjacent pixels and
\* touches the other class
C29_Witness ==
    /\ Computed("shdiandlpi")
    /\ LET mat == AdjacencyMatrix(win.clipped)
       IN  /\ Len(mat) = 2
           /\ mat[1][1] >= 2
           /\ mat[1][2] >= 1
           /\ mat[2][1] = mat[1][2]

---------------------------------------------------------------------------
(* C30 *)

\* the rasters of the list have pairwise different names
DistinctNames ==
    \A i \in DOMAIN rasters : \A j \in DOMAIN rasters :
        i # j => rasters[i].name # rasters[j].name

\* C30: in a run over rasters with pairwise different names, the output
\* paths are pairwise different, and when the run is done the sink still
\* holds, for every raster of the list, the table of that raster at the
\* path of that raster.
C30_NoOutputOverwritten ==
    DistinctNames =>
        /\ \A i \in DOMAIN rasters : \A j \in DOMAIN rasters :
              i # j => OutputPath(rasters[i].name) # OutputPath(rasters[j].name)
        /\ pc = "done" =>
              /\ Cardinality(sink) = Len(rasters)
              /\ \A j \in DOMAIN rasters :
                    \E file \in sink :
                        /\ file.path = OutputPath(rasters[j].name)
                        /\ file.table
                              = TableFor(rasters[j], ZonesOf(fishnet), script)
=============================================================================
